---- MODULE Spec2Model ----
(***************************************************************************)
(* Chatnificent: the message-turn callback (callbacks.py, send_message)    *)
(* driving the pillars (auth, store, llm, layout builder), and the         *)
(* in-memory persistence manager (persistence_managers.py).                *)
(*                                                                         *)
(* Python objects live in a heap of cells addressed by references, so that *)
(* aliasing between the caller's Conversation object and the object held   *)
(* by the store is part of the state.  Text is a sequence of tokens; the   *)
(* token " " is whitespace and "/" is the path separator.                  *)
(***************************************************************************)
EXTENDS Integers, Sequences, FiniteSets, TLC

\* ------------------------------------------------------------------ bounds
\* Number of callback invocations explored in one behaviour.
MaxTurns == 2
\* Number of store-API calls explored in one behaviour of StoreSpec.
MaxOps == 5

\* ------------------------------------------------------------- data model
USER_ROLE == "user"
ASSISTANT_ROLE == "assistant"
SYSTEM_ROLE == "system"
TOOL_ROLE == "tool"
Role == {USER_ROLE, ASSISTANT_ROLE, SYSTEM_ROLE, TOOL_ROLE}

\* The null reference: what dict.get returns for a missing key, and the
\* value of a local name that is not bound yet.
NULL == 0

\* The value of a local name that is bound to None.
NoneObject == -1

\* ChatMessage(role=..., content=...).  The generated id and timestamp are
\* never read by the code modelled here and are left out.
ChatMessage(role, content) == [role |-> role, content |-> content]

\* Conversation(id=...): a fresh object with an empty message list.
Conversation(id) == [live |-> TRUE, id |-> id, messages |-> <<>>]

\* A heap cell that holds no object.
FreeCell == [live |-> FALSE, id |-> "", messages |-> <<>>]

\* ------------------------------------------------------------------ text
\* str.strip(): drop leading and trailing whitespace tokens.
RECURSIVE LStrip(_)
LStrip(s) == IF s # <<>> /\ Head(s) = " " THEN LStrip(Tail(s)) ELSE s

RECURSIVE RStrip(_)
RStrip(s) ==
    IF s # <<>> /\ s[Len(s)] = " " THEN RStrip(SubSeq(s, 1, Len(s) - 1)) ELSE s

Strip(s) == RStrip(LStrip(s))

\* pathname.strip("/"): drop leading and trailing separators.
RECURSIVE LStripSlash(_)
LStripSlash(s) == IF s # <<>> /\ Head(s) = "/" THEN LStripSlash(Tail(s)) ELSE s

RECURSIVE RStripSlash(_)
RStripSlash(s) ==
    IF s # <<>> /\ s[Len(s)] = "/"
    THEN RStripSlash(SubSeq(s, 1, Len(s) - 1))
    ELSE s

StripSlash(s) == RStripSlash(LStripSlash(s))

\* str.split("/"): the segments between separators, "" for an empty one;
\* the empty string splits into [""].  A segment is one token here.
RECURSIVE Split(_)
Split(s) ==
    IF s = <<>> THEN <<"">>
    ELSE IF Head(s) = "/" THEN <<"">> \o Split(Tail(s))
    ELSE IF Len(s) = 1 THEN <<Head(s)>>
    ELSE IF s[2] = "/" THEN <<Head(s)>> \o Split(SubSeq(s, 3, Len(s)))
    ELSE <<Head(s)>> \o Split(Tail(s))

\* str(n) for a natural number: its decimal digits.
DecimalDigits == <<"0", "1", "2", "3", "4", "5", "6", "7", "8", "9">>

RECURSIVE ToStr(_)
ToStr(n) ==
    IF n < 10 THEN DecimalDigits[n + 1]
    ELSE ToStr(n \div 10) \o DecimalDigits[(n % 10) + 1]

\* Python None where a text value is expected (no text equals it).
PyNone == <<"<None>">>

\* A conversation id that is not a str (an int, None): no id equals it.
NotAStr == "<not a str>"

\* ------------------------------------------------------------ model inputs
\* Conversation ids that can appear in the URL.
UrlIds == {"1", "2"}

\* Values of the input textarea: empty, whitespace only, text, padded text.
Inputs == {<<>>, <<" ">>, <<"a">>, <<" ", "a", " ">>}

\* Values of url_location.pathname: "/", "/chat", "/chat/NEW", "/chat/<id>",
\* "/chat/<id>/".
Pathnames ==
    {<<"/">>, <<"/", "chat">>, <<"/", "chat", "/", "NEW">>}
    \cup {<<"/", "chat", "/", i>> : i \in UrlIds}
    \cup {<<"/", "chat", "/", "1", "/">>}

\* User ids the store is called with.
Users == {"chat", "bob"}

\* Native responses of the model backend: the text it carries (None for a
\* response without text) and what a tool-call parser would report for it.
Responses ==
    [content : {<<"r">>, PyNone}, tool_calls : {"null", "empty", "nonempty"}]

NoResponse == [content |-> <<>>, tool_calls |-> "null"]

\* ------------------------------------------------------------------ state
VARIABLES
    heap,           \* reference -> Conversation object (or FreeCell)
    store,          \* InMemoryPersistenceManager._store: the dict, as its
                    \* items <<key, reference>> in insertion order
    store_has_raw,  \* whether app.store has a save_raw_api_response attribute
    auth_user_id,   \* the user id the auth manager was constructed with
    pc,             \* position of the running send_message call, or "idle"
    turns,          \* number of send_message invocations so far
    n_clicks, user_input, pathname,             \* arguments of the call
    user_id, convo_id, conversation,            \* locals of the call
    raw_response, ai_content,
    exc,            \* str(e) of the exception caught by the handler, or ""
    result,         \* what the last call returned (or that it raised)
    calls,          \* collaborator calls made by the current/last call
    archived,       \* the arguments save_raw_api_response was called with
                    \* by the current/last call
    payload,        \* the messages generate_response was called with by the
                    \* current/last call
    before,         \* history: the persisted state, per user, when the
                    \* running/last operation started
    session,        \* StoreSpec: the user id each client calls the store with
    held,           \* StoreSpec: the Conversation each client holds
    saved,          \* StoreSpec history: objects passed to save_conversation
    ops,            \* StoreSpec: number of client operations so far
    last_op,        \* StoreSpec history: the last client operation
    written,        \* StoreSpec history: the <<user id, conversation id>>
                    \* pairs save_conversation was called with
    conversations,  \* InMemoryConversationManager._conversations: per user,
                    \* the list of conversation entries
    race,           \* RaceSpec: per client, its position in the load /
                    \* append / save sequence and the message it appended
    llm,            \* AdapterSpec: the adapter generate_response was called on
    llm_messages,   \* AdapterSpec: the messages it was called with
    llm_received,   \* AdapterSpec: the messages it handed to its backend
    tool_handler,   \* ToolSpec: the tool handler that was called
    tool_call,      \* ToolSpec: the ToolCall it was given
    tool_result,    \* ToolSpec: what it returned
    layout,         \* LayoutSpec: the component tree of build_layout
    validation      \* LayoutSpec: the outcome of _validate_layout

turn_vars ==
    <<store_has_raw, auth_user_id, pc, turns, n_clicks, user_input, pathname,
      user_id, convo_id, conversation, raw_response, ai_content, exc, result,
      calls, archived, payload>>

client_vars == <<session, held, saved, ops, last_op, written, conversations>>

\* The variables of the components that are exercised on their own.
component_vars ==
    <<llm, llm_messages, llm_received, tool_handler, tool_call, tool_result,
      layout, validation>>

vars ==
    <<heap, store, before, turn_vars, client_vars, race, component_vars>>

\* ------------------------------------------------------------------- heap
Refs == 1 .. (MaxTurns + MaxOps + 3)

\* The reference a newly constructed object gets: the first free cell.
Alloc(h) == CHOOSE r \in Refs : ~h[r].live /\ \A q \in 1 .. (r - 1) : h[q].live

\* References held by the dict.
StoreRefs(st) == {st[i].ref : i \in DOMAIN st}

\* Reference counting: an object no name or container refers to is freed.
Collect(h, st, roots) ==
    [r \in Refs |-> IF r \in StoreRefs(st) \cup roots THEN h[r] ELSE FreeCell]

\* Mutant of AppendMessage: the message is inserted at the front.
AppendMessage_prepend(h, r, message) ==
    [h EXCEPT ![r].messages = <<message>> \o @]

\* conversation.messages.append(message) on the object at reference r.
AppendMessage(h, r, message) ==
    [h EXCEPT ![r].messages = Append(@, message)]

\* ------------------------------------------- InMemoryPersistenceManager
\* self._store.get(key): the stored reference, or None.
DictGet(st, key) ==
    IF \E i \in DOMAIN st : st[i].key = key
    THEN st[CHOOSE i \in DOMAIN st : st[i].key = key].ref
    ELSE NULL

\* Mutant of DictSet: every assignment adds an item, as a list would.
DictSet_append(st, key, ref) == Append(st, [key |-> key, ref |-> ref])

\* self._store[key] = ref: replaces the value of an existing key in place,
\* appends a new key at the end.
DictSet(st, key, ref) ==
    IF \E i \in DOMAIN st : st[i].key = key
    THEN [i \in DOMAIN st |-> IF st[i].key = key
                               THEN [key |-> key, ref |-> ref]
                               ELSE st[i]]
    ELSE Append(st, [key |-> key, ref |-> ref])

\* Mutant of load_conversation: the lookup uses the user id as the key, so
\* no stored conversation is ever found.
load_conversation_by_user(st, uid, cid) == DictGet(st, uid)

\* load_conversation returns the stored object itself (no copy).
load_conversation(st, uid, cid) == DictGet(st, cid)

\* conversation.copy(deep=True): a new object with equal contents.
DeepCopy(h, r) == [h EXCEPT ![Alloc(h)] = h[r]]

\* Mutant of save_conversation: the caller's object itself is stored.
save_conversation_no_copy(h, st, uid, r) ==
    [heap |-> h, store |-> DictSet(st, h[r].id, r)]

\* save_conversation: the dict entry conversation.id is set to a deep copy.
\* The result is the new heap and the new dict.
save_conversation(h, st, uid, r) ==
    [heap |-> DeepCopy(h, r), store |-> DictSet(st, h[r].id, Alloc(h))]

\* list_conversations: the keys of the dict, in insertion order.
list_conversations(st, uid) == [i \in DOMAIN st |-> st[i].key]

\* get_next_conversation_id: str(len(self._store) + 1).
get_next_conversation_id(st, uid) == ToStr(Len(st) + 1)

\* What load_conversation(uid, cid).messages reads now (<<>> if None).
Persisted(h, st, uid, cid) ==
    IF load_conversation(st, uid, cid) = NULL THEN <<>>
    ELSE h[load_conversation(st, uid, cid)].messages

\* Every id the store can hold within the bounds.
ConvoIds == UrlIds \cup {ToStr(i) : i \in 1 .. (MaxTurns + MaxOps + 1)}

\* The persisted state as the store's read operations show it.
StoreView(h, st, uid) ==
    [keys |-> list_conversations(st, uid),
     messages |-> [cid \in ConvoIds |-> Persisted(h, st, uid, cid)]]

\* The persisted state as each user sees it.
Snapshot(h, st) == [uid \in Users |-> StoreView(h, st, uid)]

\* ------------------------------------------------------- other pillars
\* SingleUser.get_current_user_id: the configured id, whatever the pathname.
get_current_user_id(pn) == auth_user_id

\* extract_content: the text the native response carries.
extract_content(response) == response.content

\* layout_builder.build_messages: one rendered component per message.
build_messages(messages) ==
    [i \in DOMAIN messages |->
        [component |-> messages[i].role, children |-> messages[i].content]]

\* ------------------------------------------------- send_message: values
ZeroCalls ==
    [get_current_user_id |-> 0, get_next_conversation_id |-> 0,
     load_conversation |-> 0, generate_response |-> 0, extract_content |-> 0,
     save_raw_api_response |-> 0, save_conversation |-> 0, build_messages |-> 0,
     retrieve |-> 0, before_llm_call |-> 0, after_llm_call |-> 0,
     before_save |-> 0]

Called(name) == calls' = [calls EXCEPT ![name] = @ + 1]

\* Return values.  "no_update" is dash.no_update on all three outputs;
\* "raised" records that the exception left the callback.
Pending == [kind |-> "pending", messages |-> <<>>, input_value |-> <<>>,
            submit_disabled |-> FALSE]
NoUpdate == [kind |-> "no_update", messages |-> <<>>, input_value |-> <<>>,
             submit_disabled |-> FALSE]
Raised == [kind |-> "raised", messages |-> <<>>, input_value |-> <<>>,
           submit_disabled |-> FALSE]
Returned(messages) ==
    [kind |-> "result", messages |-> messages, input_value |-> <<>>,
     submit_disabled |-> FALSE]

\* Mutant of error_message: a fixed apology that drops the description.
error_message_generic(e) == <<"Something went wrong. Please try again.">>

\* f"I encountered an error: {str(e)}. Please try again."
error_message(e) == <<"I encountered an error: ", e, ". Please try again.">>

\* raw_response.model_dump(): the dict of the response's fields (a response
\* that is a dict already is forwarded as it is).
model_dump(response) ==
    [content |-> response.content, tool_calls |-> response.tool_calls]

\* No save_raw_api_response call was made.
NoArchive == [user_id |-> "", convo_id |-> "", response |-> NoResponse]

\* Mutant of ArchiveArgs: the response is filed without the conversation id.
ArchiveArgs_no_convo_id(uid, cid, response) ==
    [user_id |-> uid, convo_id |-> "", response |-> model_dump(response)]

\* Line 55: the arguments of app.store.save_raw_api_response(...).
ArchiveArgs(uid, cid, response) ==
    [user_id |-> uid, convo_id |-> cid, response |-> model_dump(response)]

\* path_parts = pathname.strip("/").split("/")
path_parts(pn) == Split(StripSlash(pn))

\* The test of line 27: the URL carries a conversation id.
UrlHasConvoId(pn) ==
    /\ Len(path_parts(pn)) >= 2
    /\ path_parts(pn)[Len(path_parts(pn))] # ""
    /\ path_parts(pn)[Len(path_parts(pn))] # "NEW"

\* Mutant of NothingToDo: the guard without the whitespace test.
NothingToDo_unstripped(nc, ui) == nc = 0 \/ ui = <<>>

\* The guard of line 20.
NothingToDo(nc, ui) == nc = 0 \/ ui = <<>> \/ Strip(ui) = <<>>

\* Line 38 (and __init__.py line 181): [msg.model_dump() for msg in
\* conversation.messages], the role and content of each message in order.
message_dicts(messages) ==
    [i \in DOMAIN messages |->
        [role |-> messages[i].role, content |-> messages[i].content]]

\* ------------------------------------------------ send_message: actions
config == <<store_has_raw, auth_user_id>>
arguments == <<turns, n_clicks, user_input, pathname, before>>

\* An exception raised inside the try block reaches the except clause.
Caught(e) == exc' = e /\ pc' = "except"

\* The call ends: its frame is dropped and unreferenced objects are freed.
Return(res, h, st) ==
    /\ result' = res
    /\ pc' = "idle"
    /\ conversation' = NULL
    /\ heap' = Collect(h, st, {})
    /\ store' = st

\* Mutant of AppendAssistant: the assistant message is built, not appended.
AppendAssistant_dropped(content) ==
    IF content = PyNone
    THEN Caught("validation error") /\ UNCHANGED heap
    ELSE pc' = "save" /\ UNCHANGED <<heap, exc>>

\* Lines 57-58: build the assistant message and append it.  ChatMessage
\* declares content: str, so None is rejected with a validation error.
AppendAssistant(content) ==
    IF content = PyNone
    THEN Caught("validation error") /\ UNCHANGED heap
    ELSE /\ heap' = AppendMessage(heap, conversation,
                                  ChatMessage(ASSISTANT_ROLE, content))
         /\ pc' = "save"
         /\ UNCHANGED exc

\* Lines 19-21: the callback fires; the guard returns no_update or the try
\* block is entered.
send_message(nc, ui, pn) ==
    /\ pc = "idle"
    /\ turns < MaxTurns
    /\ turns' = turns + 1
    /\ n_clicks' = nc /\ user_input' = ui /\ pathname' = pn
    /\ before' = Snapshot(heap, store)
    /\ calls' = ZeroCalls
    /\ archived' = NoArchive
    /\ payload' = <<>>
    /\ user_id' = "" /\ convo_id' = "" /\ conversation' = NULL
    /\ raw_response' = NoResponse /\ ai_content' = <<>> /\ exc' = ""
    /\ IF NothingToDo(nc, ui)
       THEN result' = NoUpdate /\ pc' = "idle"
       ELSE result' = Pending /\ pc' = "auth"
    /\ UNCHANGED <<heap, store, config, client_vars, race,
                   component_vars>>

\* Lines 24-30: ask the auth manager, then look for an id in the URL.
call_get_current_user_id ==
    /\ pc = "auth"
    /\ Called("get_current_user_id")
    /\ \/ /\ user_id' = get_current_user_id(pathname)
          /\ IF UrlHasConvoId(pathname)
             THEN /\ convo_id' = path_parts(pathname)[Len(path_parts(pathname))]
                  /\ pc' = "load"
             ELSE /\ convo_id' = convo_id
                  /\ pc' = "next_id"
          /\ UNCHANGED exc
       \/ /\ Caught("auth failed")
          /\ UNCHANGED <<user_id, convo_id>>
    /\ UNCHANGED <<heap, store, config, arguments, archived, payload, conversation, raw_response,
                   ai_content, result, client_vars, race,
                   component_vars>>

\* Line 30.  The store of the application allocates the id; a store of
\* another make may also hand back a value that is not a string.
call_get_next_conversation_id ==
    /\ pc = "next_id"
    /\ Called("get_next_conversation_id")
    /\ \/ /\ convo_id' \in {get_next_conversation_id(store, user_id), NotAStr}
          /\ pc' = "load"
          /\ UNCHANGED exc
       \/ /\ Caught("id allocation failed")
          /\ UNCHANGED convo_id
    /\ UNCHANGED <<heap, store, config, arguments, archived, payload, user_id, conversation,
                   raw_response, ai_content, result, client_vars, race,
                   component_vars>>

\* Lines 32-37: load or create the conversation, append the user message.
\* Conversation declares id: str: for another value the constructor raises
\* a validation error, after the name conversation was bound to the None
\* that load_conversation returned.
call_load_conversation ==
    /\ pc = "load"
    /\ Called("load_conversation")
    /\ \/ /\ convo_id = NotAStr
          /\ conversation' = NoneObject
          /\ Caught("validation error")
          /\ UNCHANGED heap
       \/ /\ convo_id # NotAStr
          /\ LET loaded == load_conversation(store, user_id, convo_id)
                 ref == IF loaded = NULL THEN Alloc(heap) ELSE loaded
                 h1 == IF loaded = NULL
                       THEN [heap EXCEPT ![ref] = Conversation(convo_id)]
                       ELSE heap
             IN /\ conversation' = ref
                /\ heap' = AppendMessage(h1, ref,
                               ChatMessage(USER_ROLE, Strip(user_input)))
          /\ pc' = "generate"
          /\ UNCHANGED exc
       \/ /\ Caught("load failed")
          /\ UNCHANGED <<heap, conversation>>
    /\ UNCHANGED <<store, config, arguments, archived, payload, user_id, convo_id, raw_response,
                   ai_content, result, client_vars, race,
                   component_vars>>

\* Lines 38-40: the messages are dumped and handed to the model call.
call_generate_response ==
    /\ pc = "generate"
    /\ Called("generate_response")
    /\ payload' = message_dicts(heap[conversation].messages)
    /\ \/ /\ \E response \in Responses : raw_response' = response
          /\ pc' = "extract"
          /\ UNCHANGED exc
       \/ /\ Caught("LLM Error")
          /\ UNCHANGED raw_response
    /\ UNCHANGED <<heap, store, config, arguments, archived, user_id, convo_id,
                   conversation, ai_content, result, client_vars, race,
                   component_vars>>

\* Line 41, then line 50: hasattr(app.store, "save_raw_api_response").
call_extract_content ==
    /\ pc = "extract"
    /\ Called("extract_content")
    /\ \/ /\ ai_content' = extract_content(raw_response)
          /\ IF store_has_raw
             THEN pc' = "archive" /\ UNCHANGED <<heap, exc>>
             ELSE AppendAssistant(extract_content(raw_response))
       \/ /\ Caught("extraction failed")
          /\ UNCHANGED <<heap, ai_content>>
    /\ UNCHANGED <<store, config, arguments, archived, payload, user_id, convo_id, conversation,
                   raw_response, result, client_vars, race,
                   component_vars>>

\* Lines 51-55: forward the raw response to the store.
call_save_raw_api_response ==
    /\ pc = "archive"
    /\ Called("save_raw_api_response")
    /\ archived' = ArchiveArgs(user_id, convo_id, raw_response)
    /\ \/ AppendAssistant(ai_content)
       \/ Caught("archival failed") /\ UNCHANGED heap
    /\ UNCHANGED <<store, config, arguments, payload, user_id, convo_id,
                   conversation, raw_response, ai_content, result, client_vars, race,
                   component_vars>>

\* Line 60.
call_save_conversation ==
    /\ pc = "save"
    /\ Called("save_conversation")
    /\ \/ /\ LET s == save_conversation(heap, store, user_id, conversation)
             IN /\ heap' = Collect(s.heap, s.store, {conversation})
                /\ store' = s.store
          /\ pc' = "render"
          /\ UNCHANGED exc
       \/ /\ Caught("save failed")
          /\ UNCHANGED <<heap, store>>
    /\ UNCHANGED <<config, arguments, archived, payload, user_id, convo_id, conversation,
                   raw_response, ai_content, result, client_vars, race,
                   component_vars>>

\* Lines 62-66.
call_build_messages ==
    /\ pc = "render"
    /\ Called("build_messages")
    /\ \/ /\ Return(Returned(build_messages(heap[conversation].messages)),
                    heap, store)
          /\ UNCHANGED exc
       \/ /\ Caught("render failed")
          /\ UNCHANGED <<heap, store, conversation, result>>
    /\ UNCHANGED <<config, arguments, archived, payload, user_id, convo_id, raw_response,
                   ai_content, client_vars, race,
                   component_vars>>

\* Mutant of handle_exception: the error message is built and returned, but
\* not appended to the conversation that is saved.
handle_exception_silent ==
    /\ pc = "except"
    /\ IF conversation = NoneObject
       THEN Return(Raised, heap, store)
       ELSE IF conversation # NULL
       THEN /\ pc' = "except_save"
            /\ UNCHANGED <<heap, store, conversation, result>>
       ELSE Return(Returned(<<[role |-> ASSISTANT_ROLE,
                               content |-> error_message(exc)]>>),
                   heap, store)
    /\ UNCHANGED <<config, arguments, archived, payload, user_id, convo_id, raw_response,
                   ai_content, exc, calls, client_vars, race,
                   component_vars>>

\* Lines 68-73 and 81: the except clause.  With the name conversation bound
\* ("conversation" in locals()), the error message is appended to its
\* messages, which for None raises an AttributeError that leaves the
\* callback; without it, the fallback is returned.
handle_exception ==
    /\ pc = "except"
    /\ IF conversation = NoneObject
       THEN Return(Raised, heap, store)
       ELSE IF conversation # NULL
       THEN /\ heap' = AppendMessage(heap, conversation,
                           ChatMessage(ASSISTANT_ROLE, error_message(exc)))
            /\ pc' = "except_save"
            /\ UNCHANGED <<store, conversation, result>>
       ELSE Return(Returned(<<[role |-> ASSISTANT_ROLE,
                               content |-> error_message(exc)]>>),
                   heap, store)
    /\ UNCHANGED <<config, arguments, archived, payload, user_id, convo_id, raw_response,
                   ai_content, exc, calls, client_vars, race,
                   component_vars>>

\* Line 74: save_conversation inside the except clause.  Nothing encloses
\* it, so an exception it raises leaves the callback.
handler_save_conversation ==
    /\ pc = "except_save"
    /\ Called("save_conversation")
    /\ \/ /\ LET s == save_conversation(heap, store, user_id, conversation)
             IN /\ heap' = Collect(s.heap, s.store, {conversation})
                /\ store' = s.store
          /\ pc' = "except_render"
          /\ UNCHANGED <<conversation, result>>
       \/ Return(Raised, heap, store)
    /\ UNCHANGED <<config, arguments, archived, payload, user_id, convo_id, raw_response,
                   ai_content, exc, client_vars, race,
                   component_vars>>

\* Lines 76-79: build_messages inside the except clause.
handler_build_messages ==
    /\ pc = "except_render"
    /\ Called("build_messages")
    /\ \/ Return(Returned(build_messages(heap[conversation].messages)),
                 heap, store)
       \/ Return(Raised, heap, store)
    /\ UNCHANGED <<config, arguments, archived, payload, user_id, convo_id, raw_response,
                   ai_content, exc, client_vars, race,
                   component_vars>>

\* ------------------------------------------------------ handle_interaction
\* The callback of Chatnificent._register_callbacks: one handler for a click
\* on the send button and for a change of the URL.  It has no try block: an
\* exception of a collaborator leaves the callback.
Triggers == {"chat_send_button", "url_location"}

\* The steps of the handler at which an exception can arise, in order, and
\* "none" for a run without one.
InteractionSteps ==
    <<"get_current_user_id", "load_conversation", "generate_response",
      "extract_content", "ChatMessage", "save_conversation",
      "format_messages", "none">>

StepNumber(step) ==
    CHOOSE k \in DOMAIN InteractionSteps : InteractionSteps[k] = step

\* Line 165: convo_id = pathname.strip("/").split("/")[-1].
interaction_convo_id(pn) ==
    Split(StripSlash(pn))[Len(Split(StripSlash(pn)))]

\* Line 170: the send button was clicked with a non-empty input.
IsSubmission(trig, nc, ui) == trig = "chat_send_button" /\ nc # 0 /\ ui # <<>>

\* DefaultMessageFormatter.format_messages: one styled Div per message.
format_messages(messages) ==
    [i \in DOMAIN messages |->
        [component |-> "Div", markdown |-> messages[i].content,
         margin |-> IF messages[i].role = USER_ROLE
                    THEN "marginLeft" ELSE "marginRight"]]

\* What handle_interaction returns: (formatted_messages, "", conversation
\* list); the list has an item per listed id.
InteractionResult(messages, ids) ==
    [kind |-> "result", messages |-> messages, input_value |-> <<>>,
     convo_list |-> ids]

\* Lines 156-256.  stops names the step whose exception ends the call.
handle_interaction(trig, nc, pn, ui, response, stops) ==
    /\ pc = "idle"
    /\ turns < MaxTurns
    /\ IsSubmission(trig, nc, ui) \/
          stops \in {"get_current_user_id", "load_conversation",
                     "format_messages", "none"}
    /\ stops = "ChatMessage" <=> extract_content(response) = PyNone
    /\ LET submit == IsSubmission(trig, nc, ui)
           at == StepNumber(stops)
           cid == interaction_convo_id(pn)
           loaded == load_conversation(store, get_current_user_id(pn), cid)
           ref == IF loaded = NULL THEN Alloc(heap) ELSE loaded
           h0 == IF loaded = NULL
                 THEN [heap EXCEPT ![ref] = Conversation(cid)]
                 ELSE heap
           h1 == AppendMessage(h0, ref, ChatMessage(USER_ROLE, ui))
           h2 == AppendMessage(h1, ref,
                     ChatMessage(ASSISTANT_ROLE, extract_content(response)))
           s == save_conversation(h2, store, get_current_user_id(pn), ref)
           h == IF ~submit \/ at <= 2 THEN heap
                ELSE IF at <= 5 THEN h1
                ELSE IF at = 6 THEN h2
                ELSE s.heap
           st == IF submit /\ at >= 7 THEN s.store ELSE store
       IN /\ turns' = turns + 1
          /\ n_clicks' = nc /\ user_input' = ui /\ pathname' = pn
          /\ before' = Snapshot(heap, store)
          /\ user_id' = IF at >= 2 THEN get_current_user_id(pn) ELSE ""
          /\ convo_id' = IF at >= 2 THEN cid ELSE ""
          /\ raw_response' = IF submit /\ at >= 4 THEN response ELSE NoResponse
          /\ ai_content' = IF submit /\ at >= 5
                           THEN extract_content(response) ELSE <<>>
          /\ calls' =
                [ZeroCalls EXCEPT
                    !.get_current_user_id = 1,
                    !.load_conversation =
                        IF at < 2 THEN 0
                        ELSE IF at < 8 THEN 1
                        ELSE 1 + Len(st),
                    !.generate_response = IF submit /\ at >= 3 THEN 1 ELSE 0,
                    !.extract_content = IF submit /\ at >= 4 THEN 1 ELSE 0,
                    !.save_conversation = IF submit /\ at >= 6 THEN 1 ELSE 0]
          /\ exc' = ""
          /\ archived' = NoArchive
          /\ payload' = IF submit /\ at >= 3
                        THEN message_dicts(h1[ref].messages) ELSE <<>>
          /\ Return(IF at < 8 THEN Raised
                    ELSE InteractionResult(
                             format_messages(
                                 IF submit THEN s.heap[ref].messages
                                 ELSE IF loaded = NULL THEN <<>>
                                 ELSE heap[loaded].messages),
                             list_conversations(st, get_current_user_id(pn))),
                    h, st)
    /\ UNCHANGED <<config, client_vars, race,
                   component_vars>>

\* ------------------------------------------------- direct store clients
\* Code that calls the persistence manager itself (the store tests do):
\* each client holds at most one Conversation object at a time.
Clients == {1, 2}

NoOp == [op |-> "none", client |-> 0, cid |-> "", was_saved |-> FALSE,
         existed |-> FALSE]

\* Messages a client writes.
ClientMessages ==
    {ChatMessage(USER_ROLE, <<"a">>), ChatMessage(ASSISTANT_ROLE, <<"r">>)}

Roots(hd) == {hd[c] : c \in Clients} \ {NULL}

\* One client operation ends: count it, record it, free what is unreferenced.
ClientEffect(h, st, hd, sv, op) ==
    /\ ops' = ops + 1
    /\ last_op' = op
    /\ before' = Snapshot(heap, store)
    /\ store' = st
    /\ held' = hd
    /\ heap' = Collect(h, st, Roots(hd))
    /\ saved' = sv \cap Roots(hd)
    /\ written' = IF op.op = "save"
                  THEN written \cup {<<session[op.client], op.cid>>}
                  ELSE written
    /\ UNCHANGED <<session, conversations, turn_vars, component_vars>>

\* A statement of a store caller outside the race scenario.
ClientStep(h, st, hd, sv, op) ==
    ClientEffect(h, st, hd, sv, op) /\ UNCHANGED race

\* A client that takes no part in a race.
NotRacing == [step |-> "idle", message |-> ChatMessage(USER_ROLE, <<>>)]

\* conversation = Conversation(id=cid)
client_new(c, cid) ==
    /\ ops < MaxOps
    /\ LET r == Alloc(heap)
       IN ClientStep([heap EXCEPT ![r] = Conversation(cid)], store,
                     [held EXCEPT ![c] = r], saved,
                     [NoOp EXCEPT !.op = "new", !.client = c, !.cid = cid])

\* conversation.messages.append(message)
client_append(c, message) ==
    /\ ops < MaxOps
    /\ held[c] # NULL
    /\ ClientStep(AppendMessage(heap, held[c], message), store, held, saved,
                  [NoOp EXCEPT !.op = "append", !.client = c,
                               !.cid = heap[held[c]].id,
                               !.was_saved = held[c] \in saved])

\* conversation.messages[0].content = "Modified content"
client_set_content(c) ==
    /\ ops < MaxOps
    /\ held[c] # NULL
    /\ heap[held[c]].messages # <<>>
    /\ ClientStep([heap EXCEPT ![held[c]].messages[1].content = <<"Modified">>],
                  store, held, saved,
                  [NoOp EXCEPT !.op = "set_content", !.client = c,
                               !.cid = heap[held[c]].id,
                               !.was_saved = held[c] \in saved])

\* store.save_conversation(user, conversation)
client_save(c) ==
    /\ ops < MaxOps
    /\ held[c] # NULL
    /\ LET s == save_conversation(heap, store, session[c], held[c])
       IN ClientStep(s.heap, s.store, held, saved \cup {held[c]},
                     [NoOp EXCEPT !.op = "save", !.client = c,
                                  !.cid = heap[held[c]].id,
                                  !.existed =
                                      DictGet(store, heap[held[c]].id) # NULL])

\* conversation = store.load_conversation(user, cid)
client_load(c, cid) ==
    /\ ops < MaxOps
    /\ ClientStep(heap, store,
                  [held EXCEPT ![c] = load_conversation(store, session[c], cid)],
                  saved,
                  [NoOp EXCEPT !.op = "load", !.client = c, !.cid = cid])

\* new_id = store.get_next_conversation_id(user): nothing is stored; the
\* caller has the id.
client_get_next_conversation_id(c) ==
    /\ ops < MaxOps
    /\ ClientStep(heap, store, held, saved,
                  [NoOp EXCEPT !.op = "next_id", !.client = c,
                               !.cid = get_next_conversation_id(store,
                                                                session[c])])

\* The id the last statement obtained from get_next_conversation_id, if any.
NextIdReturned == IF last_op.op = "next_id" THEN {last_op.cid} ELSE {}

\* ------------------------------------------ InMemoryConversationManager
\* list_conversations: self._conversations.get(user_id, []).
manager_list_conversations(cv, uid) == cv[uid]

\* The entry get_next_conversation_id builds for the user.
new_convo(cv, uid) ==
    [id |-> ToStr(Len(cv[uid]) + 1),
     title |-> <<"Chat ", ToStr(Len(cv[uid]) + 1)>>]

\* get_next_conversation_id: the entry is appended to the user's list unless
\* one with its id is there; the id is returned.
manager_get_next_conversation_id(c) ==
    /\ ops < MaxOps
    /\ ops' = ops + 1
    /\ last_op' = [NoOp EXCEPT !.op = "manager_next_id", !.client = c,
                               !.cid = new_convo(conversations, session[c]).id]
    /\ before' = Snapshot(heap, store)
    /\ conversations' =
          IF \E i \in DOMAIN conversations[session[c]] :
                 conversations[session[c]][i].id =
                     new_convo(conversations, session[c]).id
          THEN conversations
          ELSE [conversations EXCEPT ![session[c]] =
                    Append(@, new_convo(conversations, session[c]))]
    /\ UNCHANGED <<heap, store, session, held, saved, written, turn_vars,
                   race, component_vars>>

\* ------------------------------------------- two racing store callers
\* The conversation both callers work on, and what it holds at the start.
RaceId == "1"

RaceInitial ==
    {<<ChatMessage(USER_ROLE, <<"Initial">>)>>,
     <<ChatMessage(USER_ROLE, <<"Initial">>),
       ChatMessage(ASSISTANT_ROLE, <<"r">>)>>,
     <<ChatMessage(USER_ROLE, <<"Initial">>),
       ChatMessage(ASSISTANT_ROLE, <<"r">>),
       ChatMessage(USER_ROLE, <<"a">>)>>}

\* The messages caller c may append: no caller writes another's message.
RaceMessages(c) ==
    {ChatMessage(role, <<"From conv", ToStr(c)>>) :
        role \in {USER_ROLE, ASSISTANT_ROLE}}

\* The initial conversation is created and saved; both callers start.
race_create(messages) ==
    /\ store = <<>>
    /\ \A c \in Clients : race[c].step = "idle"
    /\ LET r == Alloc(heap)
           h1 == [heap EXCEPT ![r] = [Conversation(RaceId) EXCEPT
                                          !.messages = messages]]
           s == save_conversation(h1, store, session[1], r)
       IN ClientEffect(s.heap, s.store, held, saved,
                       [NoOp EXCEPT !.op = "save", !.client = 1,
                                    !.cid = RaceId])
    /\ race' = [c \in Clients |-> [NotRacing EXCEPT !.step = "load"]]

\* conv = store.load_conversation(user, convo_id)
race_load(c) ==
    /\ race[c].step = "load"
    /\ ClientEffect(heap, store,
                    [held EXCEPT ![c] =
                        load_conversation(store, session[c], RaceId)],
                    saved,
                    [NoOp EXCEPT !.op = "load", !.client = c, !.cid = RaceId])
    /\ race' = [race EXCEPT ![c].step = "append"]

\* conv.messages.append(ChatMessage(...))
race_append(c, message) ==
    /\ race[c].step = "append"
    /\ ClientEffect(AppendMessage(heap, held[c], message), store, held, saved,
                    [NoOp EXCEPT !.op = "append", !.client = c,
                                 !.cid = RaceId,
                                 !.was_saved = held[c] \in saved])
    /\ race' = [race EXCEPT ![c] = [step |-> "save", message |-> message]]

\* store.save_conversation(user, conv)
race_save(c) ==
    /\ race[c].step = "save"
    /\ LET s == save_conversation(heap, store, session[c], held[c])
       IN ClientEffect(s.heap, s.store, held, saved \cup {held[c]},
                       [NoOp EXCEPT !.op = "save", !.client = c,
                                    !.cid = RaceId, !.existed = TRUE])
    /\ race' = [race EXCEPT ![c].step = "done"]

\* ------------------------------------------------------------ tool handlers
\* A text is a sequence of tokens.  Contains is Python's "token in text".
Contains(text, token) == \E i \in DOMAIN text : text[i] = token

\* ToolCall(id=..., function_name=..., function_args=...); function_args is
\* JSON text, here the sequence of its lexical tokens.
ToolCall(id, function_name, function_args) ==
    [id |-> id, function_name |-> function_name,
     function_args |-> function_args]

\* ToolResult(tool_call_id=..., function_name=..., content=..., is_error=...).
ToolResult(tool_call_id, function_name, content, is_error) ==
    [tool_call_id |-> tool_call_id, function_name |-> function_name,
     content |-> content, is_error |-> is_error]

\* What a call returns whose body is "pass": None, which is no ToolResult.
ReturnedNone == [none |-> TRUE]

\* isinstance(result, ToolResult).
IsToolResult(r) == "is_error" \in DOMAIN r

\* The ids, function names and argument texts of the tool calls tried: the
\* calls of the tool tests, an object missing an argument, and the empty text.
ArgTexts ==
    { <<"{", "}">>,
      <<"{", "a", ":", "5", ",", "b", ":", "10", "}">>,
      <<"{", "a", ":", "5", "}">>,
      <<"{", "name", ":", "World", "}">>,
      <<"{", "wrong_arg", ":", "World", "}">>,
      <<"{", "a", ":", "1", ",">>,
      <<>> }

ToolCalls ==
    {ToolCall(id, name, args) :
        id \in {"call_123", "add_1"},
        name \in {"test_function", "add", "greet"},
        args \in ArgTexts}

\* The functions the tests register, and the sets of them a PythonTool holds.
RegisteredFunctions == {"add", "greet"}

\* inspect.signature: the parameters of each function (none has a default).
Parameters(name) == IF name = "add" THEN {"a", "b"} ELSE {"name"}

\* json.loads on the text of an object: whether it parses and, if so, the
\* mapping it yields (a later pair of a repeated key wins).
ObjectBody(text) == SubSeq(text, 2, Len(text) - 1)

IsJsonObject(text) ==
    /\ Len(text) >= 2
    /\ text[1] = "{" /\ text[Len(text)] = "}"
    /\ \/ ObjectBody(text) = <<>>
       \/ /\ Len(ObjectBody(text)) % 4 = 3
          /\ \A i \in DOMAIN ObjectBody(text) :
                IF i % 4 = 2 THEN ObjectBody(text)[i] = ":"
                ELSE IF i % 4 = 0 THEN ObjectBody(text)[i] = ","
                ELSE ObjectBody(text)[i] \notin {"{", "}", ":", ","}

json_loads(text) ==
    LET body == ObjectBody(text)
        at == {i \in DOMAIN body : i % 4 = 1}
        last(k) == CHOOSE i \in at :
                      body[i] = k /\ \A j \in at : body[j] = k => j <= i
    IN [k \in {body[i] : i \in at} |-> body[last(k) + 2]]

\* int(token) for the numbers of the argument texts.
JsonNumber(token) == CHOOSE n \in 0 .. 99 : ToStr(n) = token

\* The bodies of the registered functions: add returns a + b, greet a
\* greeting; then the result is serialized: a string as it is, a number as
\* its JSON text.
add(kwargs) == ToStr(JsonNumber(kwargs["a"]) + JsonNumber(kwargs["b"]))

greet(kwargs) == "Hello, " \o kwargs["name"]

\* Mutant of execute_tool_call: the JSON error of the arguments is not
\* caught.
execute_tool_call_parse_uncaught(registry, call) ==
    IF call.function_name \notin registry
    THEN ToolResult(call.id, call.function_name,
                    <<"Tool ", call.function_name, " ", "not found">>, TRUE)
    ELSE IF ~IsJsonObject(call.function_args)
    THEN [raised |-> "JSONDecodeError"]
    ELSE IF DOMAIN json_loads(call.function_args) #
                Parameters(call.function_name)
    THEN ToolResult(call.id, call.function_name,
                    <<"Invalid arguments", " for ", call.function_name>>,
                    TRUE)
    ELSE ToolResult(call.id, call.function_name,
                    <<IF call.function_name = "add"
                      THEN add(json_loads(call.function_args))
                      ELSE greet(json_loads(call.function_args))>>, FALSE)

\* PythonTool.execute_tool_call: look the function up, parse the arguments,
\* call it with them as keyword arguments; each failure is returned as an
\* error ToolResult carrying the id of the call.
execute_tool_call(registry, call) ==
    IF call.function_name \notin registry
    THEN ToolResult(call.id, call.function_name,
                    <<"Tool ", call.function_name, " ", "not found">>, TRUE)
    ELSE IF ~IsJsonObject(call.function_args)
    THEN ToolResult(call.id, call.function_name,
                    <<"Failed to parse arguments", " for ",
                      call.function_name>>, TRUE)
    ELSE IF DOMAIN json_loads(call.function_args) #
                Parameters(call.function_name)
    THEN ToolResult(call.id, call.function_name,
                    <<"Invalid arguments", " for ", call.function_name>>,
                    TRUE)
    ELSE ToolResult(call.id, call.function_name,
                    <<IF call.function_name = "add"
                      THEN add(json_loads(call.function_args))
                      ELSE greet(json_loads(call.function_args))>>, FALSE)

\* NoTool.execute_tool and NoActionHandler.execute_tool: the body is "pass".
NoTool_execute_tool(tool_name, kwargs) == ReturnedNone

NoActionHandler_execute_tool(tool_name, kwargs) == ReturnedNone

\* A PythonTool holding the functions of registry is given a tool call.
python_tool_execute_tool_call(registry, call) ==
    /\ tool_handler' = [class |-> "PythonTool", registry |-> registry]
    /\ tool_call' = call
    /\ tool_result' = execute_tool_call(registry, call)
    /\ UNCHANGED <<heap, store, before, turn_vars, client_vars, race, llm,
                   llm_messages, llm_received, layout, validation>>

\* The default handler of the tools pillar is given a tool call.
no_tool_execute_tool(call) ==
    /\ tool_handler' = [class |-> "NoTool", registry |-> {}]
    /\ tool_call' = call
    /\ tool_result' = NoTool_execute_tool(call.function_name,
                                          call.function_args)
    /\ UNCHANGED <<heap, store, before, turn_vars, client_vars, race, llm,
                   llm_messages, llm_received, layout, validation>>

\* The default action handler of Chatnificent.__init__ is given a tool call.
no_action_handler_execute_tool(call) ==
    /\ tool_handler' = [class |-> "NoActionHandler", registry |-> {}]
    /\ tool_call' = call
    /\ tool_result' = NoActionHandler_execute_tool(call.function_name,
                                                   call.function_args)
    /\ UNCHANGED <<heap, store, before, turn_vars, client_vars, race, llm,
                   llm_messages, llm_received, layout, validation>>

\* ----------------------------------------------------------- LLM adapters
\* The longest message list an adapter is called with.
MaxPayload == 3

\* The adapters that call a backend (Echo answers by itself).
Providers ==
    {"OpenAI", "Gemini", "Anthropic", "Ollama", "OpenRouter", "DeepSeek"}

\* The message lists a turn hands to generate_response: the dumped messages
\* of a conversation, the new user message last.
Payloads ==
    LET messages == {ChatMessage(USER_ROLE, <<"a">>),
                     ChatMessage(USER_ROLE, <<"b">>),
                     ChatMessage(ASSISTANT_ROLE, <<"r">>)}
    IN {p \in UNION {[1 .. n -> messages] : n \in 1 .. MaxPayload} :
           p[Len(p)].role = USER_ROLE}

\* What the generate_response of each adapter hands to its SDK client: the
\* messages it was given, except for Gemini, which opens a new chat and
\* sends it the content of the last message; the backend sees a chat of
\* that one user message.
generate_response(provider, messages) ==
    IF provider = "Gemini"
    THEN <<ChatMessage(USER_ROLE, messages[Len(messages)].content)>>
    ELSE messages

\* app.llm.generate_response(message_dicts) on the configured adapter.
adapter_generate_response(provider, messages) ==
    /\ llm' = provider
    /\ llm_messages' = messages
    /\ llm_received' = generate_response(provider, messages)
    /\ UNCHANGED <<heap, store, before, turn_vars, client_vars, race,
                   tool_handler, tool_call, tool_result, layout, validation>>

\* ------------------------------------------------------ layout validation
\* A Dash component: its class, its id ("" when it has none) and its
\* children in order (none, one or a list; a text child is a leaf).
Component(type, id, children) ==
    [type |-> type, id |-> id, children |-> children]

Text == Component("str", "", <<>>)

\* DefaultLayoutBuilder.build_header.
build_header ==
    Component("Header", "", <<
        Component("Container", "", <<
            Component("Row", "", <<
                Component("Col", "", <<
                    Component("Button", "open-sidebar-button", <<Text>>)>>),
                Component("Col", "", <<
                    Component("H4", "", <<Text>>)>>)>>)>>)>>)

\* DefaultLayoutBuilder.build_sidebar.
build_sidebar ==
    Component("Offcanvas", "sidebar", <<
        Component("ListGroup", "conversation-list", <<>>),
        Component("Button", "new-chat-button", <<Text>>)>>)

\* DefaultLayoutBuilder.build_chat_area.
build_chat_area == Component("Main", "chat-display", <<>>)

\* DefaultLayoutBuilder.build_input_area.
build_input_area ==
    Component("Footer", "", <<
        Component("InputGroup", "", <<
            Component("Textarea", "user-input", <<>>),
            Component("Button", "send-button", <<Text>>)>>)>>)

\* DefaultLayoutBuilder.build_layout.
build_layout ==
    Component("Div", "", <<
        Component("Location", "url", <<>>),
        build_header,
        Component("Div", "", <<build_sidebar, build_chat_area>>),
        build_input_area>>)

\* The ids _validate_layout requires.
required_ids ==
    {"url_location", "chat_area_main", "user_input_textarea",
     "convo_list_div", "chat_send_button", "new_chat_button",
     "sidebar_offcanvas", "sidebar_toggle_button"}

\* The layouts of other builders: a page whose components carry the given
\* ids, the sidebar's nested one level down.
IdOrder ==
    <<"url_location", "sidebar_toggle_button", "sidebar_offcanvas",
      "convo_list_div", "new_chat_button", "chat_area_main",
      "user_input_textarea", "chat_send_button">>

Leaves(ids) ==
    LET chosen == SelectSeq(IdOrder, LAMBDA i : i \in ids)
    IN [k \in DOMAIN chosen |-> Component("Div", chosen[k], <<>>)]

custom_layout(ids) ==
    LET sidebar == {"convo_list_div", "new_chat_button"}
    IN Component("Div", "",
           Leaves(ids \ sidebar)
               \o <<Component("Div", "", Leaves(ids \cap sidebar))>>)

\* No layout has been built.
NoLayout == Component("", "", <<>>)

NotValidated == [raised |-> "", missing_ids |-> {}]

\* collect_ids of _validate_layout: the string ids of the tree.
RECURSIVE collect_ids(_)
collect_ids(component) ==
    (IF component.id # "" THEN {component.id} ELSE {})
        \cup UNION {collect_ids(component.children[i]) :
                       i \in DOMAIN component.children}

\* _validate_layout: a ValueError naming the missing ids, or nothing.
validate_layout(tree) ==
    IF required_ids \ collect_ids(tree) # {}
    THEN [raised |-> "ValueError",
          missing_ids |-> required_ids \ collect_ids(tree)]
    ELSE NotValidated

\* Chatnificent() with the default layout builder: build, then validate.
init_default_layout ==
    /\ layout' = build_layout
    /\ validation' = validate_layout(build_layout)
    /\ UNCHANGED <<heap, store, before, turn_vars, client_vars, race, llm,
                   llm_messages, llm_received, tool_handler, tool_call,
                   tool_result>>

\* Chatnificent(layout_builder=...) with a builder of its own.
init_custom_layout(ids) ==
    /\ layout' = custom_layout(ids)
    /\ validation' = validate_layout(custom_layout(ids))
    /\ UNCHANGED <<heap, store, before, turn_vars, client_vars, race, llm,
                   llm_messages, llm_received, tool_handler, tool_call,
                   tool_result>>

\* ---------------------------------------------------------- specification
InitCommon ==
    /\ heap = [r \in Refs |-> FreeCell]
    /\ store = <<>>
    /\ auth_user_id = "chat"
    /\ pc = "idle"
    /\ turns = 0
    /\ n_clicks = 0 /\ user_input = <<>> /\ pathname = <<"/">>
    /\ user_id = "" /\ convo_id = "" /\ conversation = NULL
    /\ raw_response = NoResponse /\ ai_content = <<>>
    /\ exc = ""
    /\ result = NoUpdate
    /\ calls = ZeroCalls
    /\ archived = NoArchive
    /\ payload = <<>>
    /\ before = Snapshot(heap, store)
    /\ held = [c \in Clients |-> NULL]
    /\ saved = {}
    /\ ops = 0
    /\ last_op = NoOp
    /\ written = {}
    /\ conversations = [u \in Users |-> <<>>]
    /\ race = [c \in Clients |-> NotRacing]
    /\ llm = "" /\ llm_messages = <<>> /\ llm_received = <<>>
    /\ tool_handler = [class |-> "", registry |-> {}]
    /\ tool_call = ToolCall("", "", <<>>)
    /\ tool_result = [pending |-> TRUE]
    /\ layout = NoLayout
    /\ validation = NotValidated

\* The application: any store capability, no direct store client.
Init ==
    /\ InitCommon
    /\ store_has_raw \in BOOLEAN
    /\ session = [c \in Clients |-> "chat"]

Next ==
    \/ \E nc \in 0 .. 1, ui \in Inputs, pn \in Pathnames : send_message(nc, ui, pn)
    \/ call_get_current_user_id
    \/ call_get_next_conversation_id
    \/ call_load_conversation
    \/ call_generate_response
    \/ call_extract_content
    \/ call_save_raw_api_response
    \/ call_save_conversation
    \/ call_build_messages
    \/ handle_exception
    \/ handler_save_conversation
    \/ handler_build_messages

Spec == Init /\ [][Next]_vars

\* The store under direct clients: an InMemoryPersistenceManager (it has no
\* save_raw_api_response); the second client may act for another user.
StoreInit ==
    /\ InitCommon
    /\ store_has_raw = FALSE
    /\ \E u \in Users : session = [c \in Clients |-> IF c = 1 THEN "chat" ELSE u]

StoreNext ==
    \/ \E c \in Clients, cid \in UrlIds \cup NextIdReturned : client_new(c, cid)
    \/ \E c \in Clients, m \in ClientMessages : client_append(c, m)
    \/ \E c \in Clients : client_set_content(c)
    \/ \E c \in Clients : client_save(c)
    \/ \E c \in Clients, cid \in UrlIds : client_load(c, cid)
    \/ \E c \in Clients : client_get_next_conversation_id(c)
    \/ \E c \in Clients : manager_get_next_conversation_id(c)

StoreSpec == StoreInit /\ [][StoreNext]_vars

\* Two callers of one user race on one conversation of an
\* InMemoryPersistenceManager.
RaceInit ==
    /\ InitCommon
    /\ store_has_raw = FALSE
    /\ session = [c \in Clients |-> "chat"]

RaceNext ==
    \/ \E messages \in RaceInitial : race_create(messages)
    \/ \E c \in Clients : race_load(c)
    \/ \E c \in Clients : \E m \in RaceMessages(c) : race_append(c, m)
    \/ \E c \in Clients : race_save(c)

RaceSpec == RaceInit /\ [][RaceNext]_vars

\* The application of Chatnificent.__init__ with an in-memory persistence
\* manager and a single-user auth manager for the user of the URLs.
InteractionInit ==
    /\ InitCommon
    /\ store_has_raw = FALSE
    /\ session = [c \in Clients |-> "chat"]

InteractionNext ==
    \E trig \in Triggers, nc \in 0 .. 1, pn \in Pathnames, ui \in Inputs,
       response \in Responses, k \in DOMAIN InteractionSteps :
        handle_interaction(trig, nc, pn, ui, response, InteractionSteps[k])

InteractionSpec == InteractionInit /\ [][InteractionNext]_vars

\* A tool handler on its own: it is given tool calls.
ToolNext ==
    \/ \E registry \in SUBSET RegisteredFunctions, call \in ToolCalls :
          python_tool_execute_tool_call(registry, call)
    \/ \E call \in ToolCalls : no_tool_execute_tool(call)
    \/ \E call \in ToolCalls : no_action_handler_execute_tool(call)

ToolSpec == InteractionInit /\ [][ToolNext]_vars

\* An LLM adapter on its own: generate_response is called on it.
AdapterNext ==
    \E provider \in Providers, messages \in Payloads :
        adapter_generate_response(provider, messages)

AdapterSpec == InteractionInit /\ [][AdapterNext]_vars

\* The construction of the application: the layout is built and validated.
LayoutNext ==
    \/ init_default_layout
    \/ \E ids \in SUBSET required_ids : init_custom_layout(ids)

LayoutSpec == InteractionInit /\ [][LayoutNext]_vars

\* ------------------------------------------------ properties of a turn
\* The agentic-loop bound the engine tests name (spec: "e.g. 5").
MAX_AGENTIC_TURNS == 5

\* A send_message call has ended and no other is running.
Done == pc = "idle" /\ turns > 0

\* The last call passed the guard of line 20 (a turn was started).
Submitted == ~NothingToDo(n_clicks, user_input)

\* "error" in content.lower(), on tokens.
ContainsError(text) ==
    \E i \in DOMAIN text : text[i] \in {"I encountered an error: ", "LLM Error"}

\* The terminal state of the last turn, in the words of the state machine.
TurnState ==
    IF result.kind = "result" /\ exc = "" THEN "RESULT"
    ELSE IF result.kind = "result" THEN "ERROR_RESULT"
    ELSE IF result.kind = "raised" THEN "UNHANDLED_EXCEPTION"
    ELSE "RUNNING"

\* What the store held under the turn's conversation id when it started.
Earlier == before[user_id].messages[convo_id]

\* What the store holds under the turn's conversation id now.
Now == Persisted(heap, store, user_id, convo_id)

\* C1: every started turn ends by returning a well-formed result (a message
\* list, input value "", submit_disabled false); no exception leaves the
\* callback, whichever collaborator raised.
C1_NoExceptionEscapes ==
    (Done /\ Submitted) =>
        /\ result.kind = "result"
        /\ result.input_value = <<>>
        /\ result.submit_disabled = FALSE

\* generate_response is the call that raised, and the save_conversation call
\* of the except clause has returned.
ErrorSaved ==
    /\ exc = "LLM Error"
    /\ calls.save_conversation = 1
    /\ \/ pc = "except_render"
       \/ pc = "idle" /\ calls.build_messages = 1

\* C2: when generate_response raises (and the store then saves), the
\* persisted conversation is what it was before the turn, then the user
\* message, then exactly one assistant message embedding the error
\* description (it contains "error"); 2 messages for a new conversation.
C2_ErrorPersistedInThread ==
    ErrorSaved =>
        /\ Len(Now) = Len(Earlier) + 2
        /\ SubSeq(Now, 1, Len(Earlier)) = Earlier
        /\ Now[Len(Earlier) + 1] = ChatMessage(USER_ROLE, Strip(user_input))
        /\ Now[Len(Now)].role = ASSISTANT_ROLE
        /\ ContainsError(Now[Len(Now)].content)
        /\ \E i \in DOMAIN Now[Len(Now)].content :
              Now[Len(Now)].content[i] = exc
        /\ (Earlier = <<>> => Len(Now) = 2)

\* C2 witness: generate_response raised in a turn on a conversation of 2
\* persisted messages, and the turn has ended with 4 persisted.
C2_Witness ==
    /\ ErrorSaved /\ Done
    /\ Len(Earlier) = 2 /\ Len(Now) = 4

\* The turn succeeded and the model asked for no tool call.
SuccessNoToolCall ==
    /\ Done /\ Submitted /\ result.kind = "result" /\ exc = ""
    /\ raw_response.tool_calls \in {"null", "empty"}

C4_EmptyOrNullFinalizes ==
    (raw_response # NoResponse /\ raw_response.tool_calls \in {"null", "empty"}) =>
        /\ calls.generate_response = 1
        /\ calls.extract_content <= 1
        /\ pc = "save" =>
              /\ calls.extract_content = 1
              /\ calls.save_conversation = 0
              /\ heap[conversation].messages =
                    Earlier \o <<ChatMessage(USER_ROLE, Strip(user_input)),
                                 ChatMessage(ASSISTANT_ROLE, ai_content)>>
        /\ (Done /\ result.kind = "result" /\ exc = "") =>
              /\ calls.extract_content = 1
              /\ calls.save_conversation = 1
              /\ Now = Earlier \o <<ChatMessage(USER_ROLE, Strip(user_input)),
                                    ChatMessage(ASSISTANT_ROLE, ai_content)>>

\* C4 witness: a turn whose response carried an empty tool-call list ended
\* successfully.
C4_Witness ==
    /\ Done /\ result.kind = "result" /\ exc = ""
    /\ raw_response # NoResponse /\ raw_response.tool_calls = "empty"

\* C5: when every response reports tool calls, a turn calls
\* generate_response exactly MAX_AGENTIC_TURNS times.
C5_LoopRunsToBound ==
    (Done /\ Submitted /\ result.kind = "result" /\ exc = ""
          /\ raw_response.tool_calls = "nonempty") =>
        calls.generate_response = MAX_AGENTIC_TURNS

\* C6: every started turn ends in one of the terminal states RESULT and
\* ERROR_RESULT, and in no other state.
C6_TerminalStates ==
    (Done /\ Submitted) => TurnState \in {"RESULT", "ERROR_RESULT"}

\* C7: between turns every persisted conversation ends with an assistant
\* message, and every conversation handed to save_conversation does.
C7_EndsWithAssistant ==
    /\ pc = "idle" =>
          \A i \in DOMAIN store :
              /\ heap[store[i].ref].messages # <<>>
              /\ heap[store[i].ref].messages[
                     Len(heap[store[i].ref].messages)].role = ASSISTANT_ROLE
    /\ pc \in {"save", "except_save"} =>
          heap[conversation].messages[
              Len(heap[conversation].messages)].role = ASSISTANT_ROLE

\* C7 witness: two turns have ended, one of them on the error path, and a
\* conversation of at least 4 messages is persisted.
C7_Witness ==
    /\ pc = "idle" /\ turns = 2 /\ exc # ""
    /\ \E i \in DOMAIN store : Len(heap[store[i].ref].messages) >= 4

\* C8: with an empty or whitespace-only input the callback is a no-op: no
\* collaborator is called, the persisted state is what it was, and the call
\* returns no_update rather than an error message.
C8_BlankInputIsNoOp ==
    (Done /\ Strip(user_input) = <<>>) =>
        /\ calls = ZeroCalls
        /\ Snapshot(heap, store) = before
        /\ result = NoUpdate

\* C8 witness: a whitespace-only input was submitted with a click, after an
\* earlier turn had persisted a conversation.
C8_Witness ==
    /\ Done /\ n_clicks = 1 /\ user_input = <<" ">> /\ store # <<>>

\* ---------------------------------------------- properties of the store
\* How often cid occurs in list_conversations(uid).
Occurrences(uid, cid) ==
    Cardinality({i \in DOMAIN list_conversations(store, uid) :
                    list_conversations(store, uid)[i] = cid})

\* C9: save_conversation stores a deep copy: when the caller mutates an
\* object it has passed to save_conversation (appends a message, changes a
\* message's content), no user's load_conversation or list_conversations
\* result changes: the store still shows what was saved.
C9_SaveStoresDeepCopy ==
    (last_op.op \in {"append", "set_content"} /\ last_op.was_saved) =>
        Snapshot(heap, store) = before

\* C9 witness: a saved, non-empty conversation had its first message
\* rewritten by the caller, and now differs from the persisted one.
C9_Witness ==
    /\ last_op.op = "set_content" /\ last_op.was_saved
    /\ Persisted(heap, store, session[last_op.client], last_op.cid) # <<>>
    /\ heap[held[last_op.client]].messages #
           Persisted(heap, store, session[last_op.client], last_op.cid)

\* C10: save_conversation replaces per id: whatever was saved before, an id
\* is listed at most once, and right after save_conversation(u, c) the id of
\* c is listed exactly once and load_conversation returns exactly the
\* messages of c, not those of an earlier save followed by them.
C10_SaveReplaces ==
    /\ \A uid \in Users, cid \in ConvoIds : Occurrences(uid, cid) <= 1
    /\ last_op.op = "save" =>
          \A uid \in Users :
              /\ Occurrences(uid, last_op.cid) = 1
              /\ Persisted(heap, store, uid, last_op.cid) =
                    heap[held[last_op.client]].messages

\* C10 witness: a save replaced a non-empty conversation stored under the
\* same id by a different one.
C10_Witness ==
    /\ last_op.op = "save" /\ last_op.existed
    /\ before[session[last_op.client]].messages[last_op.cid] # <<>>
    /\ before[session[last_op.client]].messages[last_op.cid] #
           Persisted(heap, store, session[last_op.client], last_op.cid)
    /\ Persisted(heap, store, session[last_op.client], last_op.cid) # <<>>

\* The listed ids as numbers (int(conv_id)).
IdValue(cid) == CHOOSE n \in 0 .. (2 * (MaxTurns + MaxOps + 2)) : ToStr(n) = cid

\* C11: round trip: right after save_conversation(u, c), load_conversation(u,
\* c.id) returns a conversation with the id and the messages of c; and
\* load_conversation(u, id) is None for every id never saved for user u.
C11_RoundTrip ==
    /\ last_op.op = "save" =>
          /\ load_conversation(store, session[last_op.client], last_op.cid)
                 # NULL
          /\ heap[load_conversation(store, session[last_op.client],
                                    last_op.cid)].id = last_op.cid
          /\ Persisted(heap, store, session[last_op.client], last_op.cid) =
                 heap[held[last_op.client]].messages
    /\ \A uid \in Users, cid \in ConvoIds :
          <<uid, cid>> \notin written =>
              load_conversation(store, uid, cid) = NULL

\* C12: the store is namespaced by user id: a save_conversation by one user
\* changes no other user's load_conversation or list_conversations result,
\* and a user lists only ids saved for that user.
C12_UsersIsolated ==
    /\ last_op.op = "save" =>
          \A uid \in Users \ {session[last_op.client]} :
              StoreView(heap, store, uid) = before[uid]
    /\ \A uid \in Users :
          \A i \in DOMAIN list_conversations(store, uid) :
              <<uid, list_conversations(store, uid)[i]>> \in written

\* C13: in every store state and for every user, the id returned by
\* get_next_conversation_id is not in use and is above every listed id.
C13_NextIdUnused ==
    \A uid \in Users :
        /\ load_conversation(store, uid,
                             get_next_conversation_id(store, uid)) = NULL
        /\ \A i \in DOMAIN list_conversations(store, uid) :
              IdValue(get_next_conversation_id(store, uid)) >
                  IdValue(list_conversations(store, uid)[i])

\* C14: a call of get_next_conversation_id (of the persistence manager or of
\* the conversation manager) changes no list_conversations and no
\* load_conversation result: no placeholder conversation is listed after it.
C14_NextIdHasNoEffect ==
    [][last_op'.op \in {"next_id", "manager_next_id"} =>
          /\ Snapshot(heap', store') = Snapshot(heap, store)
          /\ \A uid \in Users :
                manager_list_conversations(conversations', uid) =
                    manager_list_conversations(conversations, uid)]_vars

\* Both racing callers have saved.
BothSaved == \A c \in Clients : race[c].step = "done"

\* The caller whose save_conversation came last, and the other one.
LaterSaver == last_op.client
EarlierSaver == CHOOSE c \in Clients : c # last_op.client

\* C16: last write wins: after both callers loaded the conversation, each
\* appended its own message and both saved, the store holds the conversation
\* of the later save: its last message is the later saver's and the earlier
\* saver's message is absent.
C16_LastWriteWins ==
    BothSaved =>
        /\ Persisted(heap, store, session[LaterSaver], RaceId) =
               heap[held[LaterSaver]].messages
        /\ Persisted(heap, store, session[LaterSaver], RaceId)[
               Len(Persisted(heap, store, session[LaterSaver], RaceId))] =
               race[LaterSaver].message
        /\ \A i \in DOMAIN Persisted(heap, store, session[LaterSaver], RaceId) :
               Persisted(heap, store, session[LaterSaver], RaceId)[i] #
                   race[EarlierSaver].message

\* ------------------------------------- further properties of a turn
\* The last turn ended successfully.
Succeeded == Done /\ Submitted /\ result.kind = "result" /\ exc = ""

\* The last turn succeeded and created a conversation under an id it had
\* obtained from get_next_conversation_id.
CreatedUnderAllocatedId ==
    /\ Succeeded
    /\ calls.get_next_conversation_id = 1
    /\ \A i \in DOMAIN before[user_id].keys : before[user_id].keys[i] # convo_id

\* C15: list_conversations is most recent first: after a turn created a
\* conversation under a newly allocated id, that id is at index 0; with
\* nothing stored the list is empty.
C15_MostRecentFirst ==
    /\ CreatedUnderAllocatedId =>
          list_conversations(store, user_id)[1] = convo_id
    /\ store = <<>> =>
          \A uid \in Users : list_conversations(store, uid) = <<>>

\* The location the next message is sent from: the pathname the result
\* carries, or else the unchanged pathname of the page.
LocationAfter ==
    IF "pathname" \in DOMAIN result THEN result.pathname ELSE pathname

\* C18: a result has the keys messages, input_value, submit_disabled and
\* pathname, and after a turn that allocated a new id the location addresses
\* the conversation just saved, so the next message resolves to that id.
C18_PathnameFollowsNewId ==
    (Succeeded /\ calls.get_next_conversation_id = 1) =>
        /\ {"messages", "input_value", "submit_disabled", "pathname"}
               \subseteq DOMAIN result
        /\ UrlHasConvoId(LocationAfter)
        /\ path_parts(LocationAfter)[Len(path_parts(LocationAfter))] = convo_id

\* A call of either turn handler has returned after saving the conversation.
SavedTurn == Done /\ result.kind = "result" /\ calls.save_conversation = 1

\* C17: both turn handlers resolve the conversation id alike.  A turn that
\* saved did so under the id of the URL when the URL carries one, and
\* otherwise under an id it requested from get_next_conversation_id: never
\* under the user-id segment, "NEW" or the empty string.
C17_ConvoIdResolved ==
    SavedTurn =>
        /\ load_conversation(store, user_id, convo_id) # NULL
        /\ IF UrlHasConvoId(pathname)
           THEN /\ convo_id = path_parts(pathname)[Len(path_parts(pathname))]
                /\ calls.get_next_conversation_id = 0
           ELSE /\ calls.get_next_conversation_id = 1
                /\ convo_id \notin {"", "NEW", user_id}

\* s is an initial segment of t.
IsPrefix(s, t) == Len(s) <= Len(t) /\ SubSeq(t, 1, Len(s)) = s

\* C19: during and after every turn, successful or failed, each persisted
\* message list has the list persisted before the turn as a prefix, the ids
\* listed before are still listed in their places, and every persisted
\* conversation has the id it is stored under.
C19_PersistedOnlyGrows ==
    /\ \A uid \in Users :
          /\ IsPrefix(before[uid].keys, list_conversations(store, uid))
          /\ \A cid \in ConvoIds :
                IsPrefix(before[uid].messages[cid],
                         Persisted(heap, store, uid, cid))
    /\ \A i \in DOMAIN store : heap[store[i].ref].id = store[i].key

\* C19 witness: the second turn on a conversation failed when extracting the
\* content, and the conversation went from 2 to 4 persisted messages.
C19_Witness ==
    /\ Done /\ turns = 2 /\ exc = "extraction failed"
    /\ Len(Earlier) = 2 /\ Len(Now) = 4

\* The turn is past the archival step of lines 50-55.
PastArchival ==
    \/ pc \in {"save", "render"}
    \/ Succeeded

\* C20: raw-response archival follows the capability: a store that has
\* save_raw_api_response receives the raw response of the turn's model call
\* with the turn's user id and conversation id, exactly once; for a store
\* without it nothing is called or raised, and a turn in which no
\* collaborator raises is a normal successful turn.
C20_ArchivalByCapability ==
    /\ (store_has_raw /\ PastArchival /\ exc = "") =>
          /\ calls.save_raw_api_response = 1
          /\ archived = [user_id |-> user_id, convo_id |-> convo_id,
                         response |-> raw_response]
    /\ ~store_has_raw =>
          /\ calls.save_raw_api_response = 0
          /\ archived = NoArchive
          /\ exc # "archival failed"
          /\ (Done /\ Submitted /\ exc = "") =>
                /\ result.kind = "result"
                /\ calls.save_conversation = 1
                /\ Now = Earlier \o
                       <<ChatMessage(USER_ROLE, Strip(user_input)),
                         ChatMessage(ASSISTANT_ROLE, ai_content)>>

\* C20 witness: a turn on a store with the capability succeeded after the
\* raw response was filed under the conversation id of the URL.
C20_Witness ==
    /\ store_has_raw /\ Succeeded
    /\ archived.convo_id = "2" /\ archived.response.content = <<"r">>

\* The model's reply was extracted, and nothing but the archival step (if
\* anything) raised: the turn's input and model response were good.
ReplyExtracted ==
    /\ Done /\ Submitted
    /\ calls.extract_content = 1
    /\ ai_content # PyNone
    /\ exc \in {"", "archival failed"}
    /\ result.kind = "result"

\* C21: raw-response archival is fire-and-forget.  Whether
\* save_raw_api_response succeeds, is absent or raises, a turn whose reply
\* was extracted appends the same assistant reply, persists the same
\* conversation with one save_conversation call and returns the same result.
C21_ArchivalFireAndForget ==
    ReplyExtracted =>
        /\ calls.save_conversation = 1
        /\ Now = Earlier \o <<ChatMessage(USER_ROLE, Strip(user_input)),
                              ChatMessage(ASSISTANT_ROLE, ai_content)>>
        /\ result = Returned(build_messages(Now))

\* C22: in a turn without tool calls on a new conversation each of the hooks
\* before_llm_call, after_llm_call and before_save runs exactly once (in that
\* order, around the model call and before the save).
C22_HooksRunOnce ==
    (SuccessNoToolCall /\ Earlier = <<>>) =>
        /\ calls.before_llm_call = 1
        /\ calls.after_llm_call = 1
        /\ calls.before_save = 1

\* NoKnowledgeRetriever.retrieve: the body is "pass".
retrieve(query, uid, cid) == PyNone

\* C23: in a turn the retriever is called exactly once before the model
\* call; the payload of generate_response holds a system message with the
\* retrieved text when there is one, and no system message when there is
\* none.
C23_RetrieverCalledOnce ==
    calls.generate_response = 1 =>
        /\ calls.retrieve = 1
        /\ (\E i \in DOMAIN payload : payload[i].role = SYSTEM_ROLE) <=>
               retrieve(user_input, user_id, convo_id) # PyNone

\* C24: tool execution never raises: execute_tool_call returns a ToolResult
\* carrying the id of the call, and it is an error result naming the cause
\* when the function is not registered ("not found"), the arguments are not
\* valid JSON ("Failed to parse arguments") or they do not match the
\* parameters ("Invalid arguments").
C24_ToolFailuresAreResults ==
    tool_handler.class = "PythonTool" =>
        /\ IsToolResult(tool_result)
        /\ tool_result.tool_call_id = tool_call.id
        /\ tool_call.function_name \notin tool_handler.registry =>
              /\ tool_result.is_error
              /\ Contains(tool_result.content, "not found")
        /\ (/\ tool_call.function_name \in tool_handler.registry
            /\ ~IsJsonObject(tool_call.function_args)) =>
              /\ tool_result.is_error
              /\ Contains(tool_result.content, "Failed to parse arguments")
        /\ (/\ tool_call.function_name \in tool_handler.registry
            /\ IsJsonObject(tool_call.function_args)
            /\ DOMAIN json_loads(tool_call.function_args) #
                   Parameters(tool_call.function_name)) =>
              /\ tool_result.is_error
              /\ Contains(tool_result.content, "Invalid arguments")

\* C24 witness: add is registered and is called with the truncated text
\* {"a": 1, : the error result of the parse failure carries the call's id.
C24_Witness ==
    /\ tool_handler = [class |-> "PythonTool", registry |-> {"add"}]
    /\ tool_call = ToolCall("add_1", "add", <<"{", "a", ":", "1", ",">>)
    /\ tool_result.is_error /\ tool_result.tool_call_id = "add_1"

\* C25: the default handler returns for every tool call an error ToolResult
\* with the id of the call and a content saying that the NoTool handler is
\* active, never None.
C25_NoToolReturnsError ==
    tool_handler.class \in {"NoTool", "NoActionHandler"} =>
        /\ IsToolResult(tool_result)
        /\ tool_result.is_error
        /\ tool_result.tool_call_id = tool_call.id
        /\ Contains(tool_result.content, "NoTool handler is active")

\* C26: every conversation in memory or in the store has a non-empty id,
\* whatever the pathname of the URL.
C26_ConversationIdNonEmpty ==
    /\ \A r \in Refs : heap[r].live => heap[r].id # ""
    /\ \A i \in DOMAIN store : store[i].key # ""

\* C27: the layout of the default builder passes validation, and validation
\* raises a ValueError naming the missing ids exactly when a required id is
\* missing from the tree.
C27_DefaultLayoutValidates ==
    layout # NoLayout =>
        /\ layout = build_layout => validation.raised = ""
        /\ validation.raised = "ValueError" <=>
               required_ids \ collect_ids(layout) # {}
        /\ validation.missing_ids = required_ids \ collect_ids(layout)

\* The turn failed before a conversation object existed: the auth lookup,
\* the id allocation, the load or the constructor of Conversation raised.
FailedBeforeConversation ==
    /\ Done /\ Submitted
    /\ exc # ""
    /\ calls.generate_response = 0

\* C28: a turn that fails before a conversation object could be constructed
\* returns the fallback result holding only the assistant error message,
\* calls save_conversation not at all and raises nothing.
C28_FallbackWithoutConversation ==
    FailedBeforeConversation =>
        /\ result = Returned(<<[role |-> ASSISTANT_ROLE,
                                content |-> error_message(exc)]>>)
        /\ calls.save_conversation = 0

\* C29: the persisted state changes only through save_conversation: when a
\* caller mutates a conversation it holds, whether it saved it or loaded it,
\* what load_conversation and list_conversations return is unchanged.
C29_OnlySaveChangesPersisted ==
    last_op.op \in {"append", "set_content"} => Snapshot(heap, store) = before

\* C30: the model call is given the messages of the conversation in order,
\* the new user message last, and the adapter hands all of them to its
\* backend.
C30_WholeConversationForwarded ==
    /\ pc = "extract" =>
          /\ payload = message_dicts(heap[conversation].messages)
          /\ payload[Len(payload)] =
                 ChatMessage(USER_ROLE, Strip(user_input))
    /\ llm # "" => llm_received = llm_messages

====
